---------------------------- MODULE Spec2Model ----------------------------
(***************************************************************************)
(* A model of copier/models.py: AnswersMap, Template, Subproject, Worker.  *)
(*                                                                         *)
(* Strings that the code slices or tests by prefix/suffix (answer keys,    *)
(* path segments, file contents) are sequences of tokens, a path is a      *)
(* sequence of segments, and a mapping (dict) is a function whose DOMAIN   *)
(* is the set of its keys.  An exception is a value: an operator that      *)
(* models a method returns a record whose field exc names the exception    *)
(* that left it ("none" when it returned normally).                        *)
(*                                                                         *)
(* External collaborators are modelled by what the code asks of them:      *)
(* jinja renders a "{{x}}" token to the context's value of x and leaves    *)
(* every other token alone; the pathspec matchers are the sets of paths    *)
(* they match; plumbum's ask() is an oracle drawn per call; git, the       *)
(* scratch copy and the task runner are steps that succeed or fail.        *)
(***************************************************************************)
EXTENDS Integers, Sequences, FiniteSets, TLC

VARIABLES
    answers,        \* Worker.answers: the AnswersMap (local, user, init, last, default)
    DEFAULT_DATA,   \* copier.config.objects.DEFAULT_DATA, the lowest layer
    template,       \* Worker.template: url, commit, secret_questions, tasks, templates_suffix
    worker,         \* the Worker's immutable options
    fs,             \* the destination directory: path -> Absent, Dir or a content
    ret,            \* the last direct call of a method and what it returned
    run,            \* the record of the last run_copy (one before it for the second run)
    upd,            \* the run_update in progress
    nops            \* number of environment steps taken (bounded)

vars == <<answers, DEFAULT_DATA, template, worker, fs, ret, run, upd, nops>>

\* ------------------------------------------------------------------ bounds
MaxWrites == 3      \* dict writes into the answer layers
MaxEdits == 2       \* edits of the destination made outside the program
MaxVersion == 2     \* PEP 440 versions are 1..MaxVersion
MaxTasks == 2       \* migration tasks per stage

\* ------------------------------------------------------------------ values
\* Python values are records that carry their type, so that any two compare.
None == [type |-> "NoneType"]
StrVal(s) == [type |-> "str", v |-> s]
FnVal == [type |-> "function", v |-> <<"<function now>">>]
DictVal(d) == [type |-> "dict", v |-> d]
PathVal(parts) == [type |-> "Path", parts |-> parts]
NoRet == [op |-> "none"]

\* Answer keys, as token sequences: a key is private when its first token is "_".
K_name == <<"name">>
K_folder == <<"folder">>
K_internal == <<"_", "internal">>
K_commit == <<"_", "commit">>
K_src_path == <<"_", "src_path">>
Keys == {K_name, K_folder, K_internal}

\* Answer values; a function (DEFAULT_DATA holds some) is not JSON-serializable.
Values == {StrVal(<<"Alice">>), FnVal}

EmptyMap == [k \in {} |-> None]
EmptyAnswers == [local |-> EmptyMap, user |-> EmptyMap, init |-> EmptyMap,
                 last |-> EmptyMap, default |-> EmptyMap]
LayerNames == {"local", "user", "init", "last", "default"}

\* ------------------------------------------------------------- AnswersMap
\* collections.ChainMap: the keys of every mapping; a lookup returns the value of
\* the first mapping, in the order given, that holds the key.
ChainMapGet(maps, k) ==
    LET i == CHOOSE i \in DOMAIN maps :
                 /\ k \in DOMAIN maps[i]
                 /\ \A j \in 1..(i - 1) : k \notin DOMAIN maps[j]
    IN  maps[i][k]

ChainMap(maps) ==
    [k \in UNION {DOMAIN maps[i] : i \in DOMAIN maps} |-> ChainMapGet(maps, k)]

combined_init_first(a, dd) ==
    ChainMap(<<a.local, a.init, a.user, a.last, a.default, dd>>)

\* AnswersMap.combined
combined(a, dd) ==
    ChainMap(<<a.local, a.user, a.init, a.last, a.default, dd>>)

\* AnswersMap.old_commit
old_commit(a) == IF K_commit \in DOMAIN a.last THEN a.last[K_commit] ELSE None

\* ------------------------------------------------------------------ Worker
\* str.startswith("_") on a key
startswith_underscore(k) == Len(k) > 0 /\ k[1] = "_"

\* isinstance(x, JSONSerializable): dict, list, tuple, str, int, float, bool, None
JSONSerializable(x) == x.type \in {"str", "int", "float", "bool", "dict", "list", "NoneType"}

\* The local variable `answers` of Worker._answers_to_remember when the method
\* reaches its end: _commit and _src_path when not None, then the filtered
\* combined answers (dict.update: the later value wins).
answers_assembled(t, a, dd) ==
    LET first == [k \in {x \in {K_commit, K_src_path} :
                          (IF x = K_commit THEN t.commit ELSE t.url) # None}
                   |-> IF k = K_commit THEN t.commit ELSE t.url]
        c == combined(a, dd)
        kept == {k \in DOMAIN c :
                    /\ ~startswith_underscore(k)
                    /\ k \notin t.secret_questions
                    /\ JSONSerializable(StrVal(k))
                    /\ JSONSerializable(c[k])}
    IN  [k \in kept |-> c[k]] @@ first

\* Worker._answers_to_remember: the method ends without a return statement, so
\* what its caller gets is None.
_answers_to_remember(t, a, dd) == None


\* ------------------------------------------------------------ the template
\* The template tree the runs render (scenarios 1 and 2 of the specification):
\*   name.txt.jinja      "Hello {{name}}"
\*   {{folder}}/         a folder whose name is an answer
\*   {{folder}}/x.txt.jinja   "x"
\*   README.md           copied verbatim
Seg_name == <<"name.txt", ".jinja">>
Seg_folder == <<"{{folder}}">>
Seg_x == <<"x.txt", ".jinja">>
Seg_readme == <<"README.md">>

SrcRoot == <<>>
SrcPaths == {SrcRoot, <<Seg_name>>, <<Seg_folder>>, <<Seg_folder, Seg_x>>, <<Seg_readme>>}
SrcIsDir(p) == p \in {SrcRoot, <<Seg_folder>>}

\* Path.iterdir() of a template folder, in the order the file system gives
iterdir(p) ==
    IF p = SrcRoot THEN << <<Seg_name>>, <<Seg_folder>>, <<Seg_readme>> >>
    ELSE IF p = <<Seg_folder>> THEN << <<Seg_folder, Seg_x>> >>
    ELSE << >>

\* Path.read_text() of a template file
SrcContent(p) ==
    IF p = <<Seg_name>> THEN <<"Hello ", "{{name}}">>
    ELSE IF p = <<Seg_folder, Seg_x>> THEN <<"x">>
    ELSE <<"readme">>

\* ---------------------------------------------------------- the destination
Absent == [kind |-> "absent"]
Dir == [kind |-> "dir"]
File(c) == [kind |-> "file", content |-> c]

DstRoot == <<>>
D_name == << <<"name.txt">> >>
D_folder == << <<"Alice">> >>
D_x == << <<"Alice">>, <<"x.txt">> >>
D_readme == << <<"README.md">> >>
DstPaths == {DstRoot, D_name, D_folder, D_x, D_readme}

Parent(p) == SubSeq(p, 1, Len(p) - 1)
\* Path.exists()
exists(f, p) == p \in DOMAIN f /\ f[p] # Absent
IsDirAt(f, p) == p \in DOMAIN f /\ f[p] = Dir
IsFileAt(f, p) == p \in DOMAIN f /\ f[p].kind = "file"
\* some proper ancestor of p is a regular file
FileAbove(f, p) == \E n \in 0..(Len(p) - 1) : IsFileAt(f, SubSeq(p, 1, n))

\* ----------------------------------------------------------------- jinja
\* The answer a template token refers to (None: the token is literal text)
VarOf(tok) ==
    IF tok = "{{name}}" THEN StrVal(K_name)
    ELSE IF tok = "{{folder}}" THEN StrVal(K_folder)
    ELSE None

\* A rendered token: a variable renders to str(value), an undefined one to ""
RenderToken(ctx, tok) ==
    IF VarOf(tok) = None THEN <<tok>>
    ELSE IF VarOf(tok).v \in DOMAIN ctx THEN ctx[VarOf(tok).v].v
    ELSE <<>>

RECURSIVE RenderTokens(_, _)
RenderTokens(ctx, s) ==
    IF s = <<>> THEN <<>> ELSE RenderToken(ctx, Head(s)) \o RenderTokens(ctx, Tail(s))

K_copier_answers == <<"_", "copier_answers">>
K_copier_conf == <<"_", "copier_conf">>

\* dict(DEFAULT_DATA, **answers, _copier_answers=answers, _copier_conf=...), with
\* answers what _answers_to_remember() returned: ** of None raises TypeError.
render_context_of(ans, dd, w) ==
    IF ans = None THEN [exc |-> "TypeError", val |-> EmptyMap]
    ELSE [exc |-> "none",
          val |-> (K_copier_answers :> DictVal(ans)) @@ (K_copier_conf :> DictVal(w))
                  @@ ans @@ dd]

\* the same with a guard `answers or {}` never written: a context is built from
\* the answers the method assembled
render_context_assembled(t, a, dd, w) == render_context_of(answers_assembled(t, a, dd), dd, w)

\* Worker._render_context
_render_context(t, a, dd, w) == render_context_of(_answers_to_remember(t, a, dd), dd, w)

\* Worker.render_string: the context is built first, then the template rendered
render_string(cx, s) ==
    IF cx.exc # "none" THEN [exc |-> cx.exc, val |-> <<>>]
    ELSE [exc |-> "none", val |-> RenderTokens(cx.val, s)]

\* str.endswith(suffix) and s[:-len(suffix)]; s[:-0] is the empty string
endswith(s, suf) == Len(s) >= Len(suf) /\ SubSeq(s, Len(s) - Len(suf) + 1, Len(s)) = suf
strip_suffix(s, suf) == IF Len(suf) = 0 THEN <<>> ELSE SubSeq(s, 1, Len(s) - Len(suf))

\* pathlib.Path(*parts): empty parts vanish
PathOf(parts) == SelectSeq(parts, LAMBDA x : x # <<>>)

\* The loop of render_path over relpath.parts: a part that renders to "" returns
\* None at once, before the parts after it are rendered.
RECURSIVE render_parts(_, _, _)
render_parts(cx, parts, acc) ==
    IF parts = <<>> THEN [exc |-> "none", none |-> FALSE, parts |-> acc]
    ELSE LET r == render_string(cx, Head(parts))
         IN  IF r.exc # "none" THEN [exc |-> r.exc, none |-> FALSE, parts |-> acc]
             ELSE IF r.val = <<>> THEN [exc |-> "none", none |-> TRUE, parts |-> acc]
             ELSE render_parts(cx, Tail(parts), Append(acc, r.val))

\* The end of render_path, given the rendered parts l: rendered_parts[-1] of an
\* empty list raises IndexError; the suffix is cut from the last part.
path_of_parts(l, suffix) ==
    IF l.exc # "none" THEN [exc |-> l.exc, val |-> None]
    ELSE IF l.none THEN [exc |-> "none", val |-> None]
    ELSE IF Len(l.parts) = 0 THEN [exc |-> "IndexError", val |-> None]
    ELSE IF endswith(l.parts[Len(l.parts)], suffix)
         THEN [exc |-> "none",
               val |-> PathVal(PathOf([l.parts EXCEPT ![Len(l.parts)] =
                                          strip_suffix(l.parts[Len(l.parts)], suffix)]))]
    ELSE [exc |-> "none", val |-> PathVal(PathOf(l.parts))]

\* Worker.render_path
render_path(cx, suffix, relpath) == path_of_parts(render_parts(cx, relpath, <<>>), suffix)

\* -------------------------------------------------------- path arbitration
\* self._path_matcher(self.all_exclusions) and create_path_filter(self.skip_if_exists):
\* the worker holds the set of destination paths each pattern list matches.
must_exclude(w, p) == p \in w.all_exclusions
must_skip(w, p) == p \in w.skip_if_exists

Decision(exc, allowed, msg, asked) ==
    [exc |-> exc, allowed |-> allowed, msg |-> msg, asked |-> asked]

\* Worker._solve_render_conflict: prints "conflict"; force answers for the user,
\* otherwise ask() does (confirm is what the user answers).
_solve_render_conflict(w, confirm) ==
    IF w.force THEN Decision("none", TRUE, "conflict", FALSE)
    ELSE Decision("none", confirm, "conflict", TRUE)

\* _render_allowed with the skip_if_exists test placed after the read of the
\* destination, where the conflict branch has already returned
render_allowed_skip_late(w, f, dst, is_dir, expected, confirm) ==
    IF expected # <<>> /\ is_dir THEN Decision("AssertionError", FALSE, "none", FALSE)
    ELSE IF must_exclude(w, dst) THEN Decision("none", FALSE, "none", FALSE)
    ELSE IF FileAbove(f, dst) THEN Decision("NotADirectoryError", FALSE, "none", FALSE)
    ELSE IF ~exists(f, dst) THEN Decision("none", TRUE, "create", FALSE)
    ELSE IF IsDirAt(f, dst) /\ is_dir THEN Decision("none", TRUE, "identical", FALSE)
    ELSE IF IsFileAt(f, dst) /\ f[dst].content = expected
         THEN Decision("none", TRUE, "identical", FALSE)
    ELSE _solve_render_conflict(w, confirm)

\* Worker._render_allowed.  read_text() raises FileNotFoundError for a missing
\* path, IsADirectoryError for a directory, and NotADirectoryError (not caught)
\* when a parent of the path is a regular file; exists() is false there.
_render_allowed(w, f, dst, is_dir, expected, confirm) ==
    IF expected # <<>> /\ is_dir THEN Decision("AssertionError", FALSE, "none", FALSE)
    ELSE IF must_exclude(w, dst) THEN Decision("none", FALSE, "none", FALSE)
    ELSE IF must_skip(w, dst) /\ exists(f, dst) THEN Decision("none", FALSE, "none", FALSE)
    ELSE IF FileAbove(f, dst) THEN Decision("NotADirectoryError", FALSE, "none", FALSE)
    ELSE IF ~exists(f, dst) THEN Decision("none", TRUE, "create", FALSE)
    ELSE IF IsDirAt(f, dst)
         THEN IF is_dir THEN Decision("none", TRUE, "identical", FALSE)
              ELSE _solve_render_conflict(w, confirm)
    ELSE IF f[dst].content = expected THEN Decision("none", TRUE, "identical", FALSE)
    ELSE _solve_render_conflict(w, confirm)


\* ---------------------------------------------------------------- rendering
\* What a render carries along: the destination, the exception that ended it,
\* the decisions printed and the paths the user was asked about.
RenderState(f) == [fs |-> f, exc |-> "none", log |-> <<>>, asked |-> <<>>]

Raise(st, e) == [st EXCEPT !.exc = e]

\* the user's answer to ask(" Overwrite <dst>?", default=True)
Answer(E, dst) == IF dst \in DOMAIN E.confirm THEN E.confirm[dst] ELSE TRUE

\* what _render_allowed printed and asked, added to the state
Noted(st, dst, d) ==
    [st EXCEPT !.exc = d.exc,
               !.log = IF d.msg = "none" THEN @ ELSE Append(@, [path |-> dst, msg |-> d.msg]),
               !.asked = IF d.asked THEN Append(@, dst) ELSE @]

\* Path.write_text(content)
write_text(st, dst, content) ==
    IF IsDirAt(st.fs, dst) THEN Raise(st, "IsADirectoryError")
    ELSE IF FileAbove(st.fs, dst) THEN Raise(st, "NotADirectoryError")
    ELSE IF dst # DstRoot /\ ~exists(st.fs, Parent(dst)) THEN Raise(st, "FileNotFoundError")
    ELSE [st EXCEPT !.fs = (dst :> File(content)) @@ @]

\* Path.mkdir(exist_ok=True): an existing directory is left alone
mkdir(st, dst) ==
    IF IsDirAt(st.fs, dst) THEN st
    ELSE IF IsFileAt(st.fs, dst) THEN Raise(st, "FileExistsError")
    ELSE IF FileAbove(st.fs, dst) THEN Raise(st, "NotADirectoryError")
    ELSE IF dst # DstRoot /\ ~exists(st.fs, Parent(dst)) THEN Raise(st, "FileNotFoundError")
    ELSE [st EXCEPT !.fs = (dst :> Dir) @@ @]

\* The content render_file computes for a template file: rendered through jinja
\* when the file's name ends with templates_suffix, read verbatim otherwise.
new_content(E, src) ==
    IF endswith(src[Len(src)], E.suffix)
    THEN render_string(E.cx, SrcContent(src))
    ELSE [exc |-> "none", val |-> SrcContent(src)]

\* The end of render_file, given the decision d of _render_allowed
write_decided(st, dst, content, d) ==
    IF d.exc # "none" \/ ~d.allowed THEN Noted(st, dst, d)
    ELSE write_text(Noted(st, dst, d), dst, content)

\* render_file from the rendered path p and the new content c on
render_file_at(st, E, p, c) ==
    IF p.exc # "none" THEN Raise(st, p.exc)
    ELSE IF p.val = None THEN st
    ELSE IF c.exc # "none" THEN Raise(st, c.exc)
    ELSE write_decided(st, p.val.parts, c.val,
                       _render_allowed(E.w, st.fs, p.val.parts, FALSE, c.val,
                                       Answer(E, p.val.parts)))

\* Worker.render_file
render_file(st, src, E) ==
    render_file_at(st, E, render_path(E.cx, E.suffix, src), new_content(E, src))

RECURSIVE render_folder(_, _, _)
RECURSIVE render_children(_, _, _)

\* The loop of render_folder over src_abspath.iterdir(); an exception ends it
render_children(st, children, E) ==
    IF children = <<>> \/ st.exc # "none" THEN st
    ELSE render_children(IF SrcIsDir(Head(children))
                         THEN render_folder(st, Head(children), E)
                         ELSE render_file(st, Head(children), E),
                         Tail(children), E)

\* The end of render_folder, given the decision d: the directory is made unless
\* the run is pretended, then the children are rendered
folder_decided(st, src, E, dst, d) ==
    IF d.exc # "none" \/ ~d.allowed THEN Noted(st, dst, d)
    ELSE render_children(IF E.w.pretend THEN Noted(st, dst, d)
                         ELSE mkdir(Noted(st, dst, d), dst),
                         iterdir(src), E)

\* render_folder from the rendered path p on
render_folder_at(st, src, E, p) ==
    IF p.exc # "none" THEN Raise(st, p.exc)
    ELSE IF p.val = None THEN st
    ELSE folder_decided(st, src, E, p.val.parts,
                        _render_allowed(E.w, st.fs, p.val.parts, TRUE, <<>>,
                                        Answer(E, p.val.parts)))

\* Worker.render_folder
render_folder(st, src, E) == render_folder_at(st, src, E, render_path(E.cx, E.suffix, src))


\* ---------------------------------------------------------------- run_copy
Event(e, i) == [ev |-> e, i |-> i]

\* Worker._execute_tasks from task i on: the command is rendered, then run with
\* check=True (E.task_ok[i] tells whether it exits with 0).
RECURSIVE _execute_tasks(_, _, _, _)
_execute_tasks(r, tasks, i, E) ==
    IF i > Len(tasks) \/ r.exc # "none" THEN r
    ELSE IF render_string(E.cx, tasks[i]).exc # "none"
         THEN [r EXCEPT !.exc = render_string(E.cx, tasks[i]).exc]
    ELSE IF ~E.task_ok[i]
         THEN [r EXCEPT !.exc = "CalledProcessError", !.events = Append(@, Event("task", i))]
    ELSE _execute_tasks([r EXCEPT !.events = Append(@, Event("task", i))], tasks, i + 1, E)

\* run_copy up to the return of render_folder
rendered(st) ==
    [exc |-> st.exc, fs |-> st.fs, log |-> st.log, asked |-> st.asked,
     events |-> <<Event("resolve", 0), Event("render_folder", 0)>>]

\* run_copy returns unless an exception left it
returned(r) == IF r.exc # "none" THEN r ELSE [r EXCEPT !.events = Append(@, Event("return", 0))]

\* The folder run_copy renders: template.local_path, or its subdirectory
copy_root(w) == IF w.subdirectory = None THEN SrcRoot ELSE w.subdirectory.parts

\* Worker.run_copy: the template root (or its subdirectory) is rendered, then the
\* tasks are run; an exception leaves the method where it is raised.
run_copy(f, t, E) ==
    returned(_execute_tasks(rendered(render_folder(RenderState(f), copy_root(E.w), E)),
                            t.tasks, 1, E))

\* ------------------------------------------------------------------- state
NoRun == [row |-> 0]
NoUpdate == [pc |-> "idle"]

\* The environment of one call: the options, the suffix, the render context
\* (a function of the answers, which no render changes) and the oracles.
Env(confirm, task_ok) ==
    [w |-> worker, suffix |-> template.templates_suffix,
     cx |-> _render_context(template, answers, DEFAULT_DATA, worker),
     confirm |-> confirm, task_ok |-> task_ok]

TaskOracles == [1..Len(template.tasks) -> BOOLEAN]
\* the user is asked about files; a path the oracle does not hold gets the default
ConfirmOracles == [{D_name, D_x} -> BOOLEAN]

DefaultTemplate ==
    [url |-> StrVal(<<"gh:org/tpl">>), commit |-> StrVal(<<"v1">>),
     secret_questions |-> {}, tasks |-> << <<"echo ", "{{name}}">> >>,
     templates_suffix |-> <<".jinja">>]

DefaultWorker ==
    [force |-> FALSE, pretend |-> FALSE, subdirectory |-> None,
     all_exclusions |-> {}, skip_if_exists |-> {}]

TypeOK ==
    /\ \A l \in LayerNames : DOMAIN answers[l] \subseteq Keys \cup {K_commit, K_src_path}
    /\ worker.force \in BOOLEAN /\ worker.pretend \in BOOLEAN
    /\ nops \in Nat


FreshDestination == [p \in DstPaths |-> IF p = DstRoot THEN Dir ELSE Absent]

\* ------------------------------------------------- the answers (SpecAnswers)
\* An AnswersMap with empty layers, for a template with or without a commit and a
\* secret question; DEFAULT_DATA holds a function or nothing.
InitAnswers ==
    /\ answers = EmptyAnswers
    /\ DEFAULT_DATA \in {EmptyMap, K_name :> FnVal}
    /\ template \in {[DefaultTemplate EXCEPT !.commit = None],
                     [DefaultTemplate EXCEPT !.secret_questions = {K_name}]}
    /\ worker = DefaultWorker
    /\ fs = FreshDestination
    /\ ret = NoRet
    /\ run = NoRun
    /\ upd = NoUpdate
    /\ nops = 0

\* A layer is a dict: layer[k] = v (the questionnaire fills user and _local, the
\* constructor's arguments fill init, last and default).
SetAnswer(l, k, v) ==
    /\ nops < MaxWrites
    /\ answers' = [answers EXCEPT ![l] = (k :> v) @@ @]
    /\ nops' = nops + 1
    /\ ret' = NoRet
    /\ UNCHANGED <<DEFAULT_DATA, template, worker, fs, run, upd>>

\* a read of AnswersMap.combined
CallCombined ==
    /\ ret' = [op |-> "combined", val |-> combined(answers, DEFAULT_DATA)]
    /\ UNCHANGED <<answers, DEFAULT_DATA, template, worker, fs, run, upd, nops>>

\* a call of Worker._answers_to_remember()
CallAnswersToRemember ==
    /\ ret' = [op |-> "_answers_to_remember",
               val |-> _answers_to_remember(template, answers, DEFAULT_DATA)]
    /\ UNCHANGED <<answers, DEFAULT_DATA, template, worker, fs, run, upd, nops>>

NextAnswers ==
    \/ \E l \in LayerNames, k \in Keys, v \in Values : SetAnswer(l, k, v)
    \/ CallCombined
    \/ CallAnswersToRemember

SpecAnswers == InitAnswers /\ [][NextAnswers]_vars

\* ------------------------------------------------------ the copy (SpecCopy)
CopyData == {K_name :> StrVal(<<"Alice">>) @@ K_folder :> StrVal(<<"Alice">>),
             K_name :> StrVal(<<"Alice">>) @@ K_folder :> StrVal(<<>>)}

\* A Worker over the template above and a destination directory that exists
\* and is empty; the template excludes README.md.
InitCopy ==
    /\ \E data \in CopyData : answers = [EmptyAnswers EXCEPT !.init = data]
    /\ DEFAULT_DATA = (<<"now">> :> FnVal)
    /\ template = DefaultTemplate
    /\ \E force \in BOOLEAN, pretend \in BOOLEAN,
          sub \in {None, PathVal(<<Seg_folder>>)}, skip \in {{}, {D_name}} :
            worker = [force |-> force, pretend |-> pretend, subdirectory |-> sub,
                      all_exclusions |-> {D_readme}, skip_if_exists |-> skip]
    /\ fs = FreshDestination
    /\ ret = NoRet
    /\ run = NoRun
    /\ upd = NoUpdate
    /\ nops = 0

\* The destination changed from outside the program: a file written or removed,
\* a directory made, under a directory that exists.
EditDestination(p, x) ==
    /\ nops < MaxEdits
    /\ p # DstRoot /\ IsDirAt(fs, Parent(p))
    /\ fs[p] # x
    /\ ~IsDirAt(fs, p) \/ \A q \in DstPaths : q # p /\ Parent(q) = p => fs[q] = Absent
    /\ x = Dir => p = D_folder
    /\ fs' = [fs EXCEPT ![p] = x]
    /\ nops' = nops + 1
    /\ ret' = NoRet
    /\ run' = NoRun
    /\ UNCHANGED <<answers, DEFAULT_DATA, template, worker, upd>>

EditValues == {Absent, Dir, File(<<"Hello ", "Alice">>), File(<<"edited">>)}

\* what is kept of a run_copy and of the one before it
RunRecord(r) ==
    [row |-> run.row + 1, before |-> fs, after |-> r.fs,
     first |-> IF run.row = 0 THEN r.fs ELSE run.after,
     exc |-> r.exc, log |-> r.log, asked |-> r.asked, events |-> r.events]

Ran(r) == fs' = r.fs /\ run' = RunRecord(r)

\* Worker.run_copy(), at most twice with nothing in between
RunCopy ==
    /\ run.row < 2
    /\ \E confirm \in ConfirmOracles, task_ok \in TaskOracles :
         Ran(run_copy(fs, template, Env(confirm, task_ok)))
    /\ ret' = NoRet
    /\ UNCHANGED <<answers, DEFAULT_DATA, template, worker, upd, nops>>

PathRet(relpath, p) == [op |-> "render_path", relpath |-> relpath, exc |-> p.exc, val |-> p.val]

\* a call of Worker.render_path(relpath)
CallRenderPath(relpath) ==
    /\ ret' = PathRet(relpath, render_path(Env(<<>>, <<>>).cx, template.templates_suffix, relpath))
    /\ run' = NoRun
    /\ UNCHANGED <<answers, DEFAULT_DATA, template, worker, fs, upd, nops>>

AllowedRet(dst, is_dir, expected, confirm, d) ==
    [op |-> "_render_allowed", dst |-> dst, is_dir |-> is_dir,
     confirm |-> d.asked /\ confirm, existed |-> exists(fs, dst),
     differs |-> IsFileAt(fs, dst) /\ fs[dst].content # expected,
     exc |-> d.exc, allowed |-> d.allowed, msg |-> d.msg, asked |-> d.asked]

\* a call of Worker._render_allowed(dst_relpath, is_dir, expected_contents)
CallRenderAllowed(dst, is_dir, expected, confirm) ==
    /\ ret' = AllowedRet(dst, is_dir, expected, confirm,
                         _render_allowed(worker, fs, dst, is_dir, expected, confirm))
    /\ run' = NoRun
    /\ UNCHANGED <<answers, DEFAULT_DATA, template, worker, fs, upd, nops>>

RenderRet(op, src, confirm, st) ==
    [op |-> op, src |-> src, confirm |-> st.asked # <<>> /\ confirm,
     before |-> fs, after |-> st.fs, exc |-> st.exc, log |-> st.log, asked |-> st.asked]

Rendered(op, src, confirm, st) == fs' = st.fs /\ ret' = RenderRet(op, src, confirm, st)

\* the user gives the same answer to every question of one call
SameAnswer(confirm) == Env([p \in DstPaths |-> confirm], <<>>)

\* a call of Worker.render_file(src_abspath)
CallRenderFile(src, confirm) ==
    /\ ~SrcIsDir(src)
    /\ Rendered("render_file", src, confirm,
                render_file(RenderState(fs), src, SameAnswer(confirm)))
    /\ run' = NoRun
    /\ UNCHANGED <<answers, DEFAULT_DATA, template, worker, upd, nops>>

\* a call of Worker.render_folder(src_abspath)
CallRenderFolder(src, confirm) ==
    /\ SrcIsDir(src)
    /\ Rendered("render_folder", src, confirm,
                render_folder(RenderState(fs), src, SameAnswer(confirm)))
    /\ run' = NoRun
    /\ UNCHANGED <<answers, DEFAULT_DATA, template, worker, upd, nops>>

NextCopy ==
    \/ \E p \in DstPaths, x \in EditValues : EditDestination(p, x)
    \/ RunCopy
    \/ \E relpath \in SrcPaths : CallRenderPath(relpath)
    \/ \E dst \in DstPaths, is_dir \in BOOLEAN, expected \in {<<>>, <<"Hello ", "Alice">>},
          confirm \in BOOLEAN :
            (is_dir => expected = <<>>) /\ CallRenderAllowed(dst, is_dir, expected, confirm)
    \/ \E src \in SrcPaths, confirm \in BOOLEAN : CallRenderFile(src, confirm)
    \/ \E src \in SrcPaths, confirm \in BOOLEAN : CallRenderFolder(src, confirm)

SpecCopy == InitCopy /\ [][NextCopy]_vars


\* -------------------------------------------------- the update (SpecUpdate)
\* Worker.run_update is the update of copier.main pasted into the class: it reads
\* conf, vcs, copy, copy_local, run_tasks and get_migration_tasks, which the file
\* does not define.  Its statements are modelled in their order, each callee as
\* a step that succeeds or fails.
\*
\* A commit string: whether packaging.version.Version accepts it, and its rank.
CommitStr(valid, n) == [type |-> "str", pep440 |-> valid, n |-> n]
Commits == {None, CommitStr(FALSE, 0)} \cup {CommitStr(TRUE, n) : n \in 1..MaxVersion}

\* packaging.version.Version(s)
Version(s) ==
    IF s.pep440 THEN [exc |-> "none", n |-> s.n] ELSE [exc |-> "InvalidVersion", n |-> 0]

\* Subproject.is_dirty: bool(git("status", "--porcelain").strip()) in a git root
is_dirty(vcs_git, porcelain) == IF vcs_git THEN porcelain ELSE FALSE

\* The two refusals of run_update, both raised as UserMessageError; the
\* specification calls them DestinationDirty and DowngradeRefused.
DestinationDirty == "UserMessageError: Destination repository is dirty; cannot continue."
DowngradeRefused == "UserMessageError: Your are downgrading. Downgrades are not supported."

\* run_update without its test of the working copy
ensure_clean_skipped(is_root, porcelain) == "none"

\* run_update, "Ensure local repo is clean": in a git root where
\* git status --porcelain prints something, the update is refused
ensure_clean(is_root, porcelain) ==
    IF is_root /\ porcelain THEN DestinationDirty ELSE "none"

\* the comparison of the downgrade test turned around
downgrade_check_reversed(old, new) ==
    IF old = None \/ new = None THEN [exc |-> "none", warned |-> FALSE]
    ELSE IF Version(old).exc # "none" \/ Version(new).exc # "none"
         THEN [exc |-> "none", warned |-> TRUE]
    ELSE IF Version(old).n < Version(new).n
         THEN [exc |-> DowngradeRefused, warned |-> FALSE]
    ELSE [exc |-> "none", warned |-> FALSE]

\* run_update, the downgrade test: nothing when a commit is missing, a warning
\* when Version() raises InvalidVersion, the refusal when old > new.
downgrade_check(old, new) ==
    IF old = None \/ new = None THEN [exc |-> "none", warned |-> FALSE]
    ELSE IF Version(old).exc # "none" \/ Version(new).exc # "none"
         THEN [exc |-> "none", warned |-> TRUE]
    ELSE IF Version(old).n > Version(new).n
         THEN [exc |-> DowngradeRefused, warned |-> FALSE]
    ELSE [exc |-> "none", warned |-> FALSE]

\* The destination of an update, as far as the update tells states apart: the
\* template commit it was rendered from, whether it holds the user's own
\* changes, and whether a rejected hunk (.rej) lies in it.
Dest(tpl, user, rej) == [tpl |-> tpl, user |-> user, rej |-> rej]
NoDiff == [taken |-> FALSE]

InitUpdate ==
    /\ \E old \in Commits, new \in Commits :
         /\ answers = [EmptyAnswers EXCEPT !.last = IF old = None THEN EmptyMap
                                                     ELSE K_commit :> old]
         /\ template = [DefaultTemplate EXCEPT !.commit = new]
         /\ \E is_root \in BOOLEAN, porcelain \in BOOLEAN, user \in BOOLEAN,
               nb \in 0..MaxTasks, na \in 0..MaxTasks :
              upd = [pc |-> "start", is_root |-> is_root, porcelain |-> porcelain,
                     before |-> nb, after |-> na, exc |-> "none", warned |-> FALSE,
                     trace |-> <<>>, dst0 |-> Dest(old, user, FALSE),
                     dst |-> Dest(old, user, FALSE), scratch |-> None, diff |-> NoDiff,
                     applied |-> NoDiff, excluded |-> {}]
    /\ DEFAULT_DATA = EmptyMap
    /\ \E skip \in {{}, {D_name}} :
         worker = [DefaultWorker EXCEPT !.force = TRUE, !.skip_if_exists = skip]
    /\ fs = FreshDestination
    /\ ret = NoRet
    /\ run = NoRun
    /\ nops = 0

Fail(e) == [upd EXCEPT !.pc = "failed", !.exc = e]
Step(pc, e) == [upd EXCEPT !.pc = pc, !.trace = Append(@, e)]
UpdateFrame == UNCHANGED <<answers, DEFAULT_DATA, template, worker, fs, ret, run, nops>>

\* run_update is entered: the destination must be clean, then the last answers
\* are loaded
UpdateEnsureClean ==
    /\ upd.pc = "start"
    /\ LET e == ensure_clean(upd.is_root, upd.porcelain)
       IN  upd' = IF e # "none" THEN Fail(e) ELSE [upd EXCEPT !.pc = "loaded"]
    /\ UpdateFrame

\* the downgrade test
UpdateCheckDowngrade ==
    /\ upd.pc = "loaded"
    /\ LET c == downgrade_check(old_commit(answers), template.commit)
       IN  upd' = IF c.exc # "none" THEN Fail(c.exc)
                  ELSE [upd EXCEPT !.pc = "checked", !.warned = c.warned]
    /\ UpdateFrame

\* copy(dst_path=dst_temp, data=last_answers, force=True, quiet=True,
\* vcs_ref=old_commit): the old template rendered into the scratch directory
UpdateScratchCopy ==
    /\ upd.pc = "checked"
    /\ \E ok \in BOOLEAN :
         upd' = IF ~ok THEN Fail("CopyFailed")
                ELSE [Step("scratch", Event("scratch_render", 0))
                        EXCEPT !.scratch = Dest(old_commit(answers), FALSE, FALSE)]
    /\ UpdateFrame

\* git init/add/commit in the scratch directory, fetch of the destination and
\* diff-tree HEAD...FETCH_HEAD (with --inter-hunk-context=0 when -1 is refused);
\* a git command that exits with an error raises ProcessExecutionError; the
\* scratch directory is removed when the with block is left
UpdateDiff ==
    /\ upd.pc = "scratch"
    /\ \E ok \in BOOLEAN :
         upd' = IF ~ok THEN [Fail("ProcessExecutionError") EXCEPT !.scratch = None]
                ELSE [Step("diffed", Event("diff", 0))
                        EXCEPT !.diff = [taken |-> TRUE, from |-> upd.scratch, to |-> upd.dst],
                               !.scratch = None]
    /\ UpdateFrame

\* run_tasks(conf, renderer, get_migration_tasks(conf, stage)): the tasks run in
\* order, and the first that fails ends the update (k tasks have run)
Migrate(stage, n, from, to) ==
    /\ upd.pc = from
    /\ \E k \in 0..n, ok \in BOOLEAN :
         /\ ok => k = n
         /\ ~ok => k > 0
         /\ LET t == [i \in 1..k |-> Event(stage, i)]
            IN  upd' = [upd EXCEPT !.pc = IF ok THEN to ELSE "failed",
                                   !.exc = IF ok THEN "none" ELSE "TaskFailed",
                                   !.trace = @ \o t]
    /\ UpdateFrame

UpdatePreMigrations == Migrate("before", upd.before, "diffed", "migrated")

\* the answers file is read again, then copy_local(conf) renders the new
\* template over the destination
UpdateCopyLocal ==
    /\ upd.pc = "migrated"
    /\ \E ok \in BOOLEAN :
         upd' = IF ~ok THEN Fail("CopyFailed")
                ELSE [Step("rendered", Event("render", 0))
                        EXCEPT !.dst = Dest(template.commit, FALSE, FALSE)]
    /\ UpdateFrame

\* Worker.answers_file, the default
answers_file == << <<".copier-answers.yml">> >>

\* the patch applied is a diff taken anew at this point, of the destination as
\* the fresh render left it
UpdateApplyFreshDiff ==
    /\ upd.pc = "rendered"
    /\ \E rejected \in BOOLEAN :
         upd' = [Step("applied", Event("apply", 0))
                   EXCEPT !.dst = Dest(upd.dst.tpl, upd.dst.user /\ ~rejected,
                                       upd.dst.user /\ rejected),
                          !.applied = [taken |-> TRUE, from |-> upd.diff.from, to |-> upd.dst],
                          !.excluded = {answers_file} \cup worker.skip_if_exists]
    /\ UpdateFrame

\* git apply --reject --exclude <answers file> --exclude <skip pattern>... fed
\* with the diff, retcode=None: a rejected hunk leaves a .rej file and no error
UpdateApply ==
    /\ upd.pc = "rendered"
    /\ \E rejected \in BOOLEAN :
         upd' = [Step("applied", Event("apply", 0))
                   EXCEPT !.dst = Dest(upd.dst.tpl, upd.diff.to.user /\ ~rejected,
                                       upd.diff.to.user /\ rejected),
                          !.applied = upd.diff,
                          !.excluded = {answers_file} \cup worker.skip_if_exists]
    /\ UpdateFrame

UpdatePostMigrations == Migrate("after", upd.after, "applied", "done")

NextUpdate ==
    \/ UpdateEnsureClean
    \/ UpdateCheckDowngrade
    \/ UpdateScratchCopy
    \/ UpdateDiff
    \/ UpdatePreMigrations
    \/ UpdateCopyLocal
    \/ UpdateApply
    \/ UpdatePostMigrations

SpecUpdate == InitUpdate /\ [][NextUpdate]_vars


\* =================================================================== claims
\* ------------------------------------------------------------- SpecAnswers
\* the layers of an AnswersMap from the highest precedence to the lowest
Precedence == <<answers.local, answers.user, answers.init, answers.last, answers.default,
                DEFAULT_DATA>>
Defining(k) == {i \in DOMAIN Precedence : k \in DOMAIN Precedence[i]}
Highest(k) == CHOOSE i \in Defining(k) : \A j \in Defining(k) : i <= j

\* C1: combined[k] is the value of the highest-precedence layer that defines k
\* (local > user > init > last > default > DEFAULT_DATA), whichever layers
\* define k, and a key that no layer defines is absent from combined.
C1_AnswerPrecedence ==
    ret.op = "combined" =>
        \A k \in Keys \cup {K_commit, K_src_path} :
            IF Defining(k) = {} THEN k \notin DOMAIN ret.val
            ELSE k \in DOMAIN ret.val /\ ret.val[k] = Precedence[Highest(k)][k]

\* combined was read with a key that user, init and DEFAULT_DATA define, user and
\* init with different values
C1_Witness ==
    /\ ret.op = "combined"
    /\ \E k \in Keys :
         /\ k \in DOMAIN answers.user /\ k \in DOMAIN answers.init /\ k \in DOMAIN DEFAULT_DATA
         /\ k \notin DOMAIN answers.local
         /\ answers.user[k] # answers.init[k]
         /\ ret.val[k] = answers.user[k]

\* C2: what _answers_to_remember produces is a mapping that holds _commit and
\* _src_path exactly when the template defines them, and besides them exactly
\* the combined answers whose key is not private, not secret, and JSON-
\* serializable with its value.
C2_PersistenceFilter ==
    ret.op = "_answers_to_remember" =>
        /\ ret.val # None
        /\ (K_commit \in DOMAIN ret.val <=> template.commit # None)
        /\ (K_src_path \in DOMAIN ret.val <=> template.url # None)
        /\ \A k \in Keys :
             k \in DOMAIN ret.val <=>
                /\ k \in DOMAIN combined(answers, DEFAULT_DATA)
                /\ ~startswith_underscore(k)
                /\ k \notin template.secret_questions
                /\ JSONSerializable(combined(answers, DEFAULT_DATA)[k])
        /\ \A k \in Keys \cap DOMAIN ret.val : ret.val[k] = combined(answers, DEFAULT_DATA)[k]

\* ---------------------------------------------------------------- SpecCopy
RenderOps == {"render_file", "render_folder"}
Expected == {<<>>, <<"Hello ", "Alice">>}

MeantContext == render_context_assembled(template, answers, DEFAULT_DATA, worker)
MeantPath(src) == render_path(MeantContext, template.templates_suffix, src)
MeantContent(src) ==
    new_content([cx |-> MeantContext, suffix |-> template.templates_suffix], src)
\* the destination of src is neither excluded nor skipped and held, before the
\* call, a file with another content than the render would write
Conflicting(src, before) ==
    /\ MeantPath(src).val # None
    /\ ~must_exclude(worker, MeantPath(src).val.parts)
    /\ ~must_skip(worker, MeantPath(src).val.parts)
    /\ IsFileAt(before, MeantPath(src).val.parts)
    /\ before[MeantPath(src).val.parts].content # MeantContent(src).val

\* C4: on a conflicting destination render_file overwrites the file exactly when
\* force is true or the user confirms; when the user declines, the content is
\* left as it was and the call ends without an error.
C4_ConflictOverwrite ==
    ret.op = "render_file" /\ Conflicting(ret.src, ret.before) =>
        /\ ret.after[MeantPath(ret.src).val.parts] = File(MeantContent(ret.src).val)
              <=> (worker.force \/ ret.confirm)
        /\ ~(worker.force \/ ret.confirm) => ret.after = ret.before
        /\ ret.exc = "none"

\* C5: when a skip_if_exists pattern matches a destination path that exists,
\* _render_allowed returns false without a prompt, whatever force and the content
\* are, and no run_copy or render call changes such a path.
C5_SkipIfExists ==
    /\ ret.op = "_render_allowed" /\ must_skip(worker, ret.dst) /\ ret.existed =>
          ~ret.allowed /\ ~ret.asked /\ ret.exc = "none"
    /\ run.row > 0 =>
          \A p \in DstPaths : must_skip(worker, p) /\ exists(run.before, p) =>
                                 run.after[p] = run.before[p]
    /\ ret.op \in RenderOps =>
          \A p \in DstPaths : must_skip(worker, p) /\ exists(ret.before, p) =>
                                 ret.after[p] = ret.before[p]

\* _render_allowed was asked, with force, about an existing skipped file whose
\* content differs from the expected one
C5_Witness ==
    /\ ret.op = "_render_allowed"
    /\ must_skip(worker, ret.dst) /\ ret.existed
    /\ worker.force /\ ret.differs
    /\ ~ret.allowed

\* the segments of a path as they are meant to render
MeantSegments(relpath) == [i \in DOMAIN relpath |-> RenderTokens(MeantContext.val, relpath[i])]
StripLast(segs, suffix) ==
    IF segs # <<>> /\ endswith(segs[Len(segs)], suffix)
    THEN [segs EXCEPT ![Len(segs)] = strip_suffix(segs[Len(segs)], suffix)]
    ELSE segs

\* C6: for every relative path, the template root included, render_path returns
\* None exactly when a segment renders to the empty string, and otherwise the
\* rendered segments with templates_suffix cut from the last one if it ends so.
C6_PathRendering ==
    ret.op = "render_path" =>
        /\ ret.exc = "none"
        /\ ret.val = None <=> \E i \in DOMAIN ret.relpath : MeantSegments(ret.relpath)[i] = <<>>
        /\ ret.val # None =>
              ret.val = PathVal(PathOf(StripLast(MeantSegments(ret.relpath),
                                                 template.templates_suffix)))

Before(ev, a, b) ==
    \A i \in DOMAIN ev : ev[i].ev = b => \E j \in 1..(i - 1) : ev[j].ev = a

\* C10: a run_copy goes through resolve, questionnaire, render, answers file,
\* tasks: the questionnaire comes before the first render, the answers file is
\* written after the render and before the first task, and the tasks run last,
\* in their declared order.
C10_CopyOrder ==
    run.row > 0 =>
        /\ Before(run.events, "resolve", "render_folder")
        /\ Before(run.events, "questionnaire", "render_folder")
        /\ Before(run.events, "render_folder", "answers_file")
        /\ Before(run.events, "answers_file", "task")
        /\ Before(run.events, "task", "return") \/ template.tasks = <<>>
        /\ \A i, j \in DOMAIN run.events :
              i < j /\ run.events[i].ev = "task" /\ run.events[j].ev = "task" =>
                 run.events[i].i < run.events[j].i

\* --------------------------------------------------------------- SpecUpdate
\* nothing of the update has been done: no scratch render, no diff, no task, no
\* render, no patch, and the destination is as it was
NothingDone ==
    /\ upd.trace = <<>>
    /\ upd.scratch = None
    /\ ~upd.diff.taken
    /\ upd.dst = upd.dst0

BothParse == old_commit(answers).pep440 /\ template.commit.pep440
PastDowngradeCheck ==
    /\ upd.pc \notin {"idle", "start", "loaded"}
    /\ upd.exc # DestinationDirty
    /\ old_commit(answers) # None /\ template.commit # None

TasksOf(stage, n) == [i \in 1..n |-> Event(stage, i)]

=============================================================================
